---- MODULE Spec2Model ----
(***************************************************************************)
(* Model of the two training scripts music_GAN.py and music_DCGAN.py:      *)
(* the batch-splitting loop, the graph's trainable variables and the two   *)
(* optimizers, the training loop with its single session run per step,     *)
(* the sampling loop, and the shape arithmetic of the DCGAN generator.     *)
(***************************************************************************)
EXTENDS Integers, Sequences, FiniteSets

VARIABLES
    script,           \* which of the two scripts runs: "GAN" or "DCGAN"
    pc,               \* position of the script
    N,                \* serialised_segments.shape[0]
    rows, columns,    \* tile geometry loaded from the pickle
    tmp_counter, batch_idx_start, batch_idx_end,
    batches_train, batches_test,
    taken,            \* history: the slices in the order the loop took them
    i,                \* loop variable of the training loop, then of the sampling loop
    batch_idx, batch_x, z,
    params,           \* trainable variable -> number of updates applied to it
    writers,          \* trainable variable -> optimizers that have written it
    gen_updates, disc_updates,   \* history: completed runs of train_gen / train_disc
    gen_feed, disc_feed,         \* history: the feed each of the last updates was computed from
    scored,           \* history: discriminator parameter values each forward pass of the last run read
    it,               \* iterations of the sampling loop started so far
    x_shape, layer    \* DCGAN generator: shape of x (without the batch axis) and next layer

vars == <<script, pc, N, rows, columns, tmp_counter, batch_idx_start, batch_idx_end,
          batches_train, batches_test, taken, i, batch_idx, batch_x, z, params,
          writers, gen_updates, disc_updates, gen_feed, disc_feed, scored, it,
          x_shape, layer>>

splitVars == <<tmp_counter, batch_idx_start, batch_idx_end, batches_train,
               batches_test, taken>>
trainVars == <<i, batch_idx, batch_x, z, params, writers, gen_updates,
               disc_updates, gen_feed, disc_feed, scored, it>>
genVars == <<x_shape, layer>>

Scripts == {"GAN", "DCGAN"}

-----------------------------------------------------------------------------
(* Program constants *)

batch_size == 128

test_size == 4

test_period == 10

num_steps_GAN == 100000

num_steps_DCGAN == 20000

num_steps(s) == IF s = "GAN" THEN num_steps_GAN ELSE num_steps_DCGAN

num_sample_columns == 10

sample_size == 4

-----------------------------------------------------------------------------
(* Bounds of the model *)

\* dataset sizes 0..MaxN for the split loop on its own
MaxN == 2450

\* tile geometries MinDim..MaxDim for the generator's shape arithmetic
MaxDim == 68

\* dataset sizes the whole pipeline is run on
\* no slice at all: the first end index is not below N
TinyN == 100

\* the second training slice is cut short by the end of the dataset
PartialN == 200

\* the second training slice has a single row
OneRowN == 257

\* nine full training slices and then one test slice
FullN == 1153

PipelineSizes == {TinyN, PartialN, OneRowN, FullN}

-----------------------------------------------------------------------------
(* numpy basic slicing a[lo:hi, :] of an array with n rows: a view on the   *)
(* rows lo .. hi-1, both ends clamped to the array.                        *)

Min(a, b) == IF a < b THEN a ELSE b

Slice_inclusive(lo, hi, n) == [lo |-> Min(lo, n), hi |-> Min(hi + 1, n)]

Slice(lo, hi, n) == [lo |-> Min(lo, n), hi |-> Min(hi, n)]

RowsOf(b) == b.lo .. (b.hi - 1)

NumRows(b) == IF b.hi > b.lo THEN b.hi - b.lo ELSE 0

-----------------------------------------------------------------------------
(* The batch-splitting loop *)

IsTestSlotAfter(counter) == counter % test_period = 1

IsTestSlot(counter) == counter % test_period = 0

SplitInit ==
    /\ tmp_counter = 1
    /\ batch_idx_start = 0
    /\ batch_idx_end = 0 + batch_size
    /\ batches_train = <<>>
    /\ batches_test = <<>>
    /\ taken = <<>>

\* the if branch: a slice of 4 rows goes to batches_test
SplitTest ==
    /\ pc = "split"
    /\ batch_idx_end < N
    /\ IsTestSlot(tmp_counter)
    /\ LET end == batch_idx_start + test_size
           s == Slice(batch_idx_start, end, N)
       IN /\ batches_test' = Append(batches_test, s)
          /\ taken' = Append(taken, [dest |-> "test", slice |-> s])
          /\ batch_idx_start' = batch_idx_start + test_size
          /\ batch_idx_end' = (batch_idx_start + test_size) + batch_size
    /\ tmp_counter' = tmp_counter + 1
    /\ UNCHANGED <<script, pc, N, rows, columns, batches_train>>
    /\ UNCHANGED trainVars
    /\ UNCHANGED genVars

\* the else branch: a slice of batch_size rows goes to batches_train;
\* batch_idx_end keeps the end of the slice just taken
SplitTrain ==
    /\ pc = "split"
    /\ batch_idx_end < N
    /\ ~IsTestSlot(tmp_counter)
    /\ LET end == batch_idx_start + batch_size
           s == Slice(batch_idx_start, end, N)
       IN /\ batch_idx_end' = end
          /\ batches_train' = Append(batches_train, s)
          /\ taken' = Append(taken, [dest |-> "train", slice |-> s])
          /\ batch_idx_start' = batch_idx_start + batch_size
    /\ tmp_counter' = tmp_counter + 1
    /\ UNCHANGED <<script, pc, N, rows, columns, batches_test>>
    /\ UNCHANGED trainVars
    /\ UNCHANGED genVars

\* the while condition is false: the graph is built and the session opened
SplitExit ==
    /\ pc = "split"
    /\ ~(batch_idx_end < N)
    /\ pc' = "train"
    /\ UNCHANGED <<script, N, rows, columns>>
    /\ UNCHANGED splitVars
    /\ UNCHANGED trainVars
    /\ UNCHANGED genVars

NextSplit == SplitTest \/ SplitTrain \/ SplitExit

-----------------------------------------------------------------------------
(* The graph: trainable variables and the two optimizers *)

GanKeys == {"gen_hidden1", "gen_out", "disc_hidden1", "disc_out"}

\* the variables tf.layers creates inside each variable scope of the DCGAN
\* script; the calls with reuse=True create none
DcganLayers(scope) ==
    IF scope = "Generator"
    THEN {"dense", "conv2d_transpose", "conv2d_transpose_1"}
    ELSE {"conv2d", "conv2d_1", "dense", "dense_1"}

TRAINABLE_VARIABLES(s) ==
    IF s = "GAN"
    THEN {<<d, k>> : d \in {"weights", "biases"}, k \in GanKeys}
    ELSE UNION {{<<scope, l, kind>> : l \in DcganLayers(scope), kind \in {"kernel", "bias"}}
                    : scope \in {"Generator", "Discriminator"}}

\* tf.get_collection(tf.GraphKeys.TRAINABLE_VARIABLES, scope=...)
get_collection(s, scope) == {v \in TRAINABLE_VARIABLES(s) : v[1] = scope}

gen_vars_unscoped(s) == TRAINABLE_VARIABLES(s)

gen_vars(s) ==
    IF s = "GAN"
    THEN {<<"weights", "gen_hidden1">>, <<"weights", "gen_out">>,
          <<"biases", "gen_hidden1">>, <<"biases", "gen_out">>}
    ELSE get_collection(s, "Generator")

disc_vars(s) ==
    IF s = "GAN"
    THEN {<<"weights", "disc_hidden1">>, <<"weights", "disc_out">>,
          <<"biases", "disc_hidden1">>, <<"biases", "disc_out">>}
    ELSE get_collection(s, "Discriminator")

\* optimizer.minimize(loss, var_list=...): one update of every variable of var_list
Minimize(p, var_list) == [v \in DOMAIN p |-> IF v \in var_list THEN p[v] + 1 ELSE p[v]]

Written(w, opt, var_list) ==
    [v \in DOMAIN w |-> IF v \in var_list THEN w[v] \cup {opt} ELSE w[v]]

\* the discriminator forward passes the graph holds
ForwardPasses(s) ==
    IF s = "GAN" THEN {"disc_real", "disc_fake"}
    ELSE {"disc_real", "disc_fake", "stacked_gan"}

\* rows of the two operands of an elementwise op broadcast against each other
Broadcastable(a, b) == a = b \/ a = 1 \/ b = 1

\* whether the ops of the two losses accept the shapes of one feed:
\* GAN:   tf.log(disc_real) + tf.log(1. - disc_fake)
\* DCGAN: the cross entropy of disc_concat against disc_target, and of
\*        stacked_gan against gen_target
ShapesAccepted(s, real_rows, noise_rows) ==
    IF s = "GAN"
    THEN Broadcastable(real_rows, noise_rows)
    ELSE /\ real_rows + noise_rows = batch_size + batch_size
         /\ noise_rows = batch_size

\* The discriminator parameter values a forward pass may read in a run that
\* also fetches train_disc. disc_real and disc_fake are inputs of disc_loss,
\* whose gradients train_disc applies: they read the values before the
\* update. stacked_gan (DCGAN) is no input of disc_loss: nothing orders its
\* reads against the in-place update, so each of them sees the value before
\* or after it.
ReadsOf(s, pass, v) ==
    IF pass = "stacked_gan" THEN {{v}, {v + 1}, {v, v + 1}} ELSE {{v}}

-----------------------------------------------------------------------------
(* The training loop *)

NoBatch == Slice(0, 0, 0)

NoNoise == [rows |-> 0, draw |-> 0]

NoFeed == [x |-> NoBatch, z |-> NoNoise]

next_batch_idx_skipping(idx, len) == (idx + 2) % len

next_batch_idx(idx, len) == (idx + 1) % len

TrainInit ==
    /\ i = 0
    /\ batch_idx = 0
    /\ batch_x = NoBatch
    /\ z = NoNoise
    /\ params = [v \in TRAINABLE_VARIABLES(script) |-> 0]
    /\ writers = [v \in TRAINABLE_VARIABLES(script) |-> {}]
    /\ gen_updates = 0
    /\ disc_updates = 0
    /\ gen_feed = NoFeed
    /\ disc_feed = NoFeed
    /\ scored = [f \in ForwardPasses(script) |-> {}]
    /\ it = 0

\* one iteration of the for loop whose session run succeeds
TrainStep ==
    /\ pc = "train"
    /\ i < num_steps(script)
    /\ Len(batches_train) > 0
    /\ LET x == batches_train[batch_idx + 1]
           noise == [rows |-> batch_size, draw |-> z.draw + 1]
           feed == [x |-> x, z |-> noise]
       IN /\ ShapesAccepted(script, NumRows(x), noise.rows)
          /\ i' = i + 1
          /\ batch_x' = x
          /\ batch_idx' = next_batch_idx(batch_idx, Len(batches_train))
          /\ z' = noise
          /\ params' = Minimize(Minimize(params, gen_vars(script)), disc_vars(script))
          /\ writers' = Written(Written(writers, "optimizer_gen", gen_vars(script)),
                                "optimizer_disc", disc_vars(script))
          /\ gen_updates' = gen_updates + 1
          /\ disc_updates' = disc_updates + 1
          /\ gen_feed' = feed
          /\ disc_feed' = feed
          /\ scored' \in {sc \in [ForwardPasses(script) -> {{disc_updates}, {disc_updates + 1},
                                                           {disc_updates, disc_updates + 1}}] :
                            \A f \in ForwardPasses(script) :
                                sc[f] \in ReadsOf(script, f, disc_updates)}
    /\ UNCHANGED <<script, pc, N, rows, columns, it>>
    /\ UNCHANGED splitVars
    /\ UNCHANGED genVars

\* one iteration whose session run raises: the loss ops reject the shapes.
\* train_disc depends on the failing op and has not run; train_gen does not
\* depend on it and may have run before the step was cancelled.
TrainStepRaises ==
    /\ pc = "train"
    /\ i < num_steps(script)
    /\ Len(batches_train) > 0
    /\ LET x == batches_train[batch_idx + 1]
           noise == [rows |-> batch_size, draw |-> z.draw + 1]
           feed == [x |-> x, z |-> noise]
       IN /\ ~ShapesAccepted(script, NumRows(x), noise.rows)
          /\ i' = i + 1
          /\ batch_x' = x
          /\ batch_idx' = next_batch_idx(batch_idx, Len(batches_train))
          /\ z' = noise
          /\ \E applied \in BOOLEAN :
                IF applied
                THEN /\ params' = Minimize(params, gen_vars(script))
                     /\ writers' = Written(writers, "optimizer_gen", gen_vars(script))
                     /\ gen_updates' = gen_updates + 1
                     /\ gen_feed' = feed
                ELSE UNCHANGED <<params, writers, gen_updates, gen_feed>>
          /\ scored' = [f \in ForwardPasses(script) |-> {disc_updates}]
    /\ pc' = "aborted"
    /\ UNCHANGED <<script, N, rows, columns, it, disc_updates, disc_feed>>
    /\ UNCHANGED splitVars
    /\ UNCHANGED genVars

\* batches_train is empty: batches_train[batch_idx] raises IndexError
TrainIndexError ==
    /\ pc = "train"
    /\ i < num_steps(script)
    /\ Len(batches_train) = 0
    /\ i' = i + 1
    /\ pc' = "aborted"
    /\ UNCHANGED <<script, N, rows, columns>>
    /\ UNCHANGED <<batch_idx, batch_x, z, params, writers, gen_updates, disc_updates,
                   gen_feed, disc_feed, scored, it>>
    /\ UNCHANGED splitVars
    /\ UNCHANGED genVars

\* range(1, num_steps+1) is exhausted
TrainExit ==
    /\ pc = "train"
    /\ i = num_steps(script)
    /\ pc' = "sample"
    /\ UNCHANGED <<script, N, rows, columns>>
    /\ UNCHANGED splitVars
    /\ UNCHANGED trainVars
    /\ UNCHANGED genVars

-----------------------------------------------------------------------------
(* The sampling loop: for i in range(10), run gen_sample on 4 noise rows *)

SampleStep ==
    /\ pc = "sample"
    /\ it < num_sample_columns
    /\ i' = it
    /\ it' = it + 1
    /\ z' = [rows |-> sample_size, draw |-> z.draw + 1]
    /\ UNCHANGED <<script, pc, N, rows, columns>>
    /\ UNCHANGED <<batch_idx, batch_x, params, writers, gen_updates, disc_updates,
                   gen_feed, disc_feed, scored>>
    /\ UNCHANGED splitVars
    /\ UNCHANGED genVars

\* the figure is saved and the script ends
SampleExit ==
    /\ pc = "sample"
    /\ it = num_sample_columns
    /\ pc' = "done"
    /\ UNCHANGED <<script, N, rows, columns>>
    /\ UNCHANGED splitVars
    /\ UNCHANGED trainVars
    /\ UNCHANGED genVars

NextTrain == TrainStep \/ TrainStepRaises \/ TrainIndexError \/ TrainExit

NextSample == SampleStep \/ SampleExit

-----------------------------------------------------------------------------
(* The DCGAN generator: the shape of x after each layer, batch axis left out *)

noise_dim_DCGAN == 200

\* the smallest geometry with a feature map of at least 1 x 1
MinDim == 8

\* the geometry the comments of the generator give for its output
TileRows == 65

TileColumns == 64

\* int(np.floor(d/4)) - 1
FeatureDim(d) == (d \div 4) - 1

Max(a, b) == IF a > b THEN a ELSE b

deconv_output_length_same(input, kernel, stride) == input * stride

\* output length of tf.layers.conv2d_transpose along one axis with the
\* default padding 'valid'
deconv_output_length(input, kernel, stride) == input * stride + Max(kernel - stride, 0)

GenInit ==
    /\ x_shape = <<noise_dim_DCGAN>>
    /\ layer = "dense"

\* tf.layers.dense(x, units=...) and tanh
GenDense ==
    /\ pc = "build"
    /\ layer = "dense"
    /\ x_shape' = <<FeatureDim(rows) * FeatureDim(columns) * 128>>
    /\ layer' = "reshape"
    /\ UNCHANGED <<script, pc, N, rows, columns>>
    /\ UNCHANGED splitVars
    /\ UNCHANGED trainVars

\* tf.reshape(x, shape=[-1, ..., ..., 128])
GenReshape ==
    /\ pc = "build"
    /\ layer = "reshape"
    /\ x_shape[1] = FeatureDim(rows) * FeatureDim(columns) * 128
    /\ x_shape' = <<FeatureDim(rows), FeatureDim(columns), 128>>
    /\ layer' = "deconv1"
    /\ UNCHANGED <<script, pc, N, rows, columns>>
    /\ UNCHANGED splitVars
    /\ UNCHANGED trainVars

\* tf.layers.conv2d_transpose(x, 64, [4,4], strides=2)
GenDeconv1 ==
    /\ pc = "build"
    /\ layer = "deconv1"
    /\ x_shape' = <<deconv_output_length(x_shape[1], 4, 2),
                    deconv_output_length(x_shape[2], 4, 2), 64>>
    /\ layer' = "deconv2"
    /\ UNCHANGED <<script, pc, N, rows, columns>>
    /\ UNCHANGED splitVars
    /\ UNCHANGED trainVars

\* tf.layers.conv2d_transpose(x, 1, [3,2], strides=2)
GenDeconv2 ==
    /\ pc = "build"
    /\ layer = "deconv2"
    /\ x_shape' = <<deconv_output_length(x_shape[1], 3, 2),
                    deconv_output_length(x_shape[2], 2, 2), 1>>
    /\ layer' = "sigmoid"
    /\ UNCHANGED <<script, pc, N, rows, columns>>
    /\ UNCHANGED splitVars
    /\ UNCHANGED trainVars

\* tf.nn.sigmoid(x) and return
GenSigmoid ==
    /\ pc = "build"
    /\ layer = "sigmoid"
    /\ layer' = "returned"
    /\ UNCHANGED <<script, pc, N, rows, columns, x_shape>>
    /\ UNCHANGED splitVars
    /\ UNCHANGED trainVars

NextGen == GenDense \/ GenReshape \/ GenDeconv1 \/ GenDeconv2 \/ GenSigmoid

-----------------------------------------------------------------------------
(* Specifications *)

\* the whole pipeline of either script, on the dataset sizes of PipelineSizes
Init ==
    /\ script \in Scripts
    /\ pc = "split"
    /\ N \in PipelineSizes
    /\ rows = TileRows
    /\ columns = TileColumns
    /\ SplitInit
    /\ TrainInit
    /\ GenInit

Next == NextSplit \/ NextTrain \/ NextSample

Spec == Init /\ [][Next]_vars

\* the split loop on its own, on every dataset size up to MaxN
InitSplit ==
    /\ script \in Scripts
    /\ pc = "split"
    /\ N \in 0..MaxN
    /\ rows = TileRows
    /\ columns = TileColumns
    /\ SplitInit
    /\ TrainInit
    /\ GenInit

SpecSplit == InitSplit /\ [][NextSplit]_vars

\* the construction of the DCGAN generator, on every geometry MinDim..MaxDim
InitGen ==
    /\ script = "DCGAN"
    /\ pc = "build"
    /\ N = 0
    /\ rows \in MinDim..MaxDim
    /\ columns \in MinDim..MaxDim
    /\ SplitInit
    /\ TrainInit
    /\ GenInit

SpecGen == InitGen /\ [][NextGen]_vars

-----------------------------------------------------------------------------
(* Properties of the batch-splitting loop (under SpecSplit) *)

IsTest(t) == t.dest = "test"

IsTrain(t) == t.dest = "train"

SlicesOf(sel) == [j \in 1..Len(sel) |-> sel[j].slice]

Overlap(a, b) == a.lo < b.hi /\ b.lo < a.hi

AllBatches == batches_train \o batches_test

\* C1: the k-th slice the loop takes (k from 1) goes to batches_test iff k is
\* a multiple of 10 and to batches_train otherwise, so exactly 9 training
\* batches lie between two consecutive test batches.
C1_RoundRobin ==
    /\ \A k \in 1..Len(taken) : IsTest(taken[k]) <=> (k % 10 = 0)
    /\ batches_test = SlicesOf(SelectSeq(taken, IsTest))
    /\ batches_train = SlicesOf(SelectSeq(taken, IsTrain))
    /\ \A a, b \in 1..Len(taken) :
          (/\ a < b
           /\ IsTest(taken[a])
           /\ IsTest(taken[b])
           /\ \A c \in (a + 1)..(b - 1) : ~IsTest(taken[c]))
          => Cardinality({c \in (a + 1)..(b - 1) : IsTrain(taken[c])}) = 9

\* the loop has finished after taking two test batches
C1_Witness ==
    /\ pc = "train"
    /\ Len(batches_test) >= 2
    /\ Len(taken) >= 20

\* C2: once the split loop has finished, every element of batches_train has
\* exactly 128 rows and every element of batches_test exactly 4 rows, the
\* last batch taken included.
C2_FixedSize ==
    pc # "split" =>
        /\ \A k \in 1..Len(batches_train) : NumRows(batches_train[k]) = 128
        /\ \A k \in 1..Len(batches_test) : NumRows(batches_test[k]) = 4

\* C3: every batch is a non-empty run of consecutive rows of the dataset, no
\* row belongs to two batches, and in creation order the batches tile a prefix
\* of the dataset from row 0, each starting where the one before it ends.
C3_DisjointTiling ==
    /\ \A k \in 1..Len(taken) :
          /\ RowsOf(taken[k].slice) # {}
          /\ taken[k].slice.lo >= 0
          /\ taken[k].slice.hi <= N
          /\ taken[k].slice.lo = (IF k = 1 THEN 0 ELSE taken[k - 1].slice.hi)
    /\ Len(AllBatches) = Len(taken)
    /\ \A j \in 1..Len(AllBatches) : \E k \in 1..Len(taken) : taken[k].slice = AllBatches[j]
    /\ \A j, k \in 1..Len(AllBatches) : j # k => ~Overlap(AllBatches[j], AllBatches[k])

\* the loop has finished with training batches on both sides of a test batch
C3_Witness ==
    /\ pc = "train"
    /\ Len(batches_test) >= 1
    /\ Len(batches_train) >= 10

-----------------------------------------------------------------------------
(* Properties of the training loop (under Spec) *)

InTraining == pc \in {"train", "aborted"}

\* C4: the generator and the discriminator parameter sets are disjoint;
\* train_disc never changes a generator parameter and train_gen never changes
\* a discriminator parameter; no parameter is written by both optimizers.
C4_DisjointParams ==
    /\ gen_vars(script) \cap disc_vars(script) = {}
    /\ \A v \in gen_vars(script) :
          /\ writers[v] \subseteq {"optimizer_gen"}
          /\ params[v] = gen_updates
    /\ \A v \in disc_vars(script) :
          /\ writers[v] \subseteq {"optimizer_disc"}
          /\ params[v] = disc_updates
    /\ \A v \in DOMAIN writers : Cardinality(writers[v]) <= 1

\* both optimizers have run, in the script that collects its variables by scope
C4_Witness ==
    /\ script = "DCGAN"
    /\ gen_updates >= 2
    /\ disc_updates >= 2
    /\ \A v \in gen_vars(script) : writers[v] = {"optimizer_gen"}
    /\ \A v \in disc_vars(script) : writers[v] = {"optimizer_disc"}

\* C5: every training step performs exactly one discriminator update and
\* exactly one generator update, none skipped, both computed from the real
\* minibatch and the noise minibatch fed for that step. (Stated on the
\* datasets that yield a training batch; i counts the steps begun.)
C5_BothPhasesEveryStep ==
    (InTraining /\ Len(batches_train) > 0) =>
        /\ gen_updates = i
        /\ disc_updates = i
        /\ i > 0 => /\ gen_feed = [x |-> batch_x, z |-> z]
                    /\ disc_feed = [x |-> batch_x, z |-> z]

\* C6: in every step, every forward pass of the discriminator (disc_real,
\* disc_fake, and stacked_gan in the DCGAN script) reads the same
\* discriminator parameter values.
C6_SharedParams ==
    \A f \in DOMAIN scored : scored[f] = scored["disc_real"]

\* C7: once training starts it executes exactly num_steps steps, with no
\* earlier exit, and then proceeds to sampling. (Stated on the datasets that
\* yield a training batch.)
C7_FixedStepCount ==
    (Len(batches_train) > 0 /\ pc \notin {"split", "train"}) =>
        /\ pc \in {"sample", "done"}
        /\ gen_updates = num_steps(script)
        /\ disc_updates = num_steps(script)

\* C9 as stated: batch_idx is a valid index into batches_train before and
\* after every step, step i is fed batches_train[(i-1) mod len], and no
\* element of batches_test is fed.
C9_Original ==
    InTraining =>
        /\ 0 <= batch_idx
        /\ batch_idx < Len(batches_train)
        /\ i > 0 => /\ batch_x = batches_train[((i - 1) % Len(batches_train)) + 1]
                    /\ \A k \in 1..Len(batches_test) : batch_x # batches_test[k]

\* C9, amended: the same, on the datasets that yield at least one training
\* batch (N > batch_size).
C9_CyclicFeed ==
    (InTraining /\ Len(batches_train) > 0) =>
        /\ 0 <= batch_idx
        /\ batch_idx < Len(batches_train)
        /\ batch_idx = i % Len(batches_train)
        /\ i > 0 => /\ batch_x = batches_train[((i - 1) % Len(batches_train)) + 1]
                    /\ \A k \in 1..Len(batches_test) : batch_x # batches_test[k]

\* the loop has wrapped around nine training batches, with a test batch held out
C9_Witness ==
    /\ pc = "train"
    /\ Len(batches_train) = 9
    /\ Len(batches_test) = 1
    /\ i = 11
    /\ batch_x = batches_train[2]
    /\ batch_idx = 2

\* C10: in every training step the number of real rows fed equals the number
\* of noise rows fed (batch_size), and in the DCGAN script the concatenated
\* logits are as long as the target vector of 2*batch_size. (Stated, as the
\* claim is, on the datasets that yield a training batch.)
C10_EqualRowCounts ==
    (InTraining /\ i > 0 /\ Len(batches_train) > 0) =>
        /\ z.rows = batch_size
        /\ NumRows(batch_x) = z.rows
        /\ script = "DCGAN" => NumRows(batch_x) + z.rows = 2 * batch_size

-----------------------------------------------------------------------------
(* Properties of the DCGAN generator's shape arithmetic (under SpecGen) *)

\* the output length the claim gives for a stride-2 unpadded transposed convolution
ClaimedLength(input, kernel) == (input - 1) * 2 + Max(kernel, 2)

\* C8 as stated: for the rows and columns loaded, the generator's output has
\* height rows and width columns (and one channel).
C8_Original ==
    layer = "returned" => x_shape = <<rows, columns, 1>>

\* C8, amended: the two transposed convolutions produce a tile of height
\* 4*floor(rows/4)+1 and width 4*floor(columns/4), which is rows x columns
\* exactly when rows mod 4 = 1 and columns mod 4 = 0.
C8_ShapeArithmetic ==
    /\ layer = "deconv2" =>
          x_shape = <<ClaimedLength(FeatureDim(rows), 4),
                      ClaimedLength(FeatureDim(columns), 4), 64>>
    /\ layer \in {"sigmoid", "returned"} =>
          /\ x_shape = <<ClaimedLength(ClaimedLength(FeatureDim(rows), 4), 3),
                         ClaimedLength(ClaimedLength(FeatureDim(columns), 4), 2), 1>>
          /\ x_shape = <<4 * (rows \div 4) + 1, 4 * (columns \div 4), 1>>
          /\ (x_shape = <<rows, columns, 1>>) <=> (rows % 4 = 1 /\ columns % 4 = 0)

\* the generator has returned a 65 x 64 x 1 tile for a 65 x 64 dataset
C8_Witness ==
    /\ layer = "returned"
    /\ rows = TileRows
    /\ columns = TileColumns
    /\ x_shape = <<rows, columns, 1>>

====
